---- MODULE Spec2Model ----
(***************************************************************************)
(* Model of stevedore/api/resources.py: the falcon resource TaskResource   *)
(* (on_get, on_post, _create_new_task, _execute_task).  Every request is   *)
(* served by one worker; workers interleave at the calls into the database *)
(* layer and into the rq queue.                                            *)
(***************************************************************************)
EXTENDS Integers, Sequences, FiniteSets, TLC

\* ------------------------------------------------------------------ bounds
NumWorkers == 2     \* concurrent request handlers
MaxExecutes == 1    \* POST /task/{id} requests received in one behaviour
MaxTimes == 2       \* largest 'times' value a payload carries

Workers == 1..NumWorkers

\* ------------------------------------------------------- python/json values
\* A python value as far as this code looks at it: None, a str or an int.
JNone == [type |-> "none", s |-> "", n |-> 0]
JStr(str) == [type |-> "str", s |-> str, n |-> 0]
JInt(num) == [type |-> "int", s |-> "", n |-> num]

\* Truthy with every id taken as absent
TruthyNever(v) == FALSE

\* `if task_id:` -- python truthiness of None / str / int
Truthy(v) ==
    CASE v.type = "none" -> FALSE
      [] v.type = "str" -> v.s # ""
      [] v.type = "int" -> v.n # 0

Digits == <<"0", "1", "2", "3", "4", "5", "6", "7", "8", "9">>

RECURSIVE Str(_)
\* '%s' % n for a non-negative int n: its decimal digits
Str(num) ==
    IF num < 10 THEN Digits[num + 1]
    ELSE Str(num \div 10) \o Digits[(num % 10) + 1]

\* parsed_json.get(key, default)
DictGet(d, key, default) == IF key \in DOMAIN d THEN d[key] ELSE default

\* RangeLen as range(0, times + 1) would give it
RangeLenInclusive(times) == IF times.n + 1 > 0 THEN times.n + 1 ELSE 0

\* range(0, times): the loop indices, or a TypeError when times is no int
RangeRaises(times) == times.type # "int"
RangeLen(times) == IF times.n > 0 THEN times.n ELSE 0

\* ------------------------------------------------------------ falcon status
HTTP_200 == "200 OK"
HTTP_201 == "201 Created"
HTTP_404 == "404 Not Found"
HTTP_409 == "409 Conflict"
HTTP_500 == "500 Internal Server Error"

\* ------------------------------------------------------------ request inputs
Repositories == {"ubuntu", "busybox"}
Names == {"build"}
Operations == {"STOP"}
\* ids a client puts in the URL
UrlIds == {"1", "2"}

CreatePayloads ==
    { [k \in D |-> IF k = "repository" THEN JStr(r) ELSE JStr(nm)] :
        D \in SUBSET {"repository", "name"}, r \in Repositories, nm \in Names }

TimesValues == {JInt(k) : k \in (-1)..MaxTimes} \cup {JStr("3")}

ExecutePayloads ==
    { [k \in D |-> IF k = "operation" THEN JStr(o) ELSE t] :
        D \in SUBSET {"operation", "times"}, o \in Operations, t \in TimesValues }

EmptyDict == [k \in {} |-> JNone]

\* ------------------------------------------------------------------- state
VARIABLES
    tasks,      \* rows of the Task table
    nextId,     \* next id the database assigns
    queue,      \* jobs on the rq queue 'default', oldest first
    nexec,      \* POST /task/{id} requests received so far
    n201,       \* per (repository, name): 201 statuses set so far
    req,        \* per worker: the request being handled
    resp,       \* per worker: the falcon response object
    pc,         \* per worker: position in the handler
    session,    \* per worker: the local variable `session`
    local,      \* per worker: the handler's other locals
    outcome     \* per worker: how the handler ended and what it observed

vars == <<tasks, nextId, queue, nexec, n201, req, resp, pc, session, local, outcome>>

NoBody == [kind |-> "none", items |-> {}]
NoTask == [id |-> 0, repository |-> JNone, name |-> JNone]

\* falcon.Response(): status '200 OK', no body, no location
NewResponse == [status |-> HTTP_200, body |-> NoBody, location |-> <<>>]

NoRequest == [method |-> "", task_id |-> JNone, payload |-> EmptyDict]

NoLocal ==
    [ operation |-> JNone, times |-> JNone, repository |-> JNone, name |-> JNone,
      i |-> 0, task |-> NoTask, created |-> FALSE ]

\* raised: an exception left the handler; fault: the call that raised first;
\* seen: the Task rows the handler's database call ran against;
\* jobs: queue positions of the jobs this handler enqueued
NoOutcome == [raised |-> FALSE, fault |-> "none", seen |-> {}, jobs |-> <<>>]

Init ==
    /\ tasks = {}
    /\ nextId = 1
    /\ queue = <<>>
    /\ nexec = 0
    /\ n201 = [r \in Repositories, nm \in Names |-> 0]
    /\ req = [w \in Workers |-> NoRequest]
    /\ resp = [w \in Workers |-> NewResponse]
    /\ pc = [w \in Workers |-> "idle"]
    /\ session = [w \in Workers |-> "unbound"]
    /\ local = [w \in Workers |-> NoLocal]
    /\ outcome = [w \in Workers |-> NoOutcome]

\* ------------------------------------------------------------ Task model
\* Task.find_by_id(session, task_id): the rows with that id (none or one)
FindById(rows, task_id) == {t \in rows : JStr(Str(t.id)) = task_id}

\* Task.create_unique_task: the row with that (repository, name), if any
FindByPair(rows, repository, name) ==
    {t \in rows : t.repository = repository /\ t.name = name}

\* task.serialize()
Serialize(t) == [id |-> t.id, repository |-> t.repository.s, name |-> t.name.s]

\* Task.serialize_tasks(tasks)
SerializeTasks(rows) == [kind |-> "tasks", items |-> {Serialize(t) : t \in rows}]

\* create_unique_task raises on a missing repository or name
CreateRaises(repository, name) == repository.type = "none" \/ name.type = "none"

\* ------------------------------------------------------------ code helpers
\* str(resp): falcon's Response has no __str__, so this is the object's repr
RespStr(w) == "<falcon.response.Response object " \o Str(w) \o ">"

\* Location with the response formatted into both places
LocationTwiceResp(w, id) == <<"/", RespStr(w), "/task/", RespStr(w), "/">>

\* '/%s/task/%s/' % (resp, task.id), as the pieces the format joins
Location(w, id) == <<"/", RespStr(w), "/task/", Str(id), "/">>

\* CreateStatus with the two branches swapped
CreateStatusSwapped(created) == IF created THEN "409 Conflict" ELSE "201 Created"

\* CreateStatus that ignores `created`
CreateStatusAlways201(created) == "201 Created"

\* _create_new_task: 201 if created else 409
CreateStatus(created) == IF created THEN HTTP_201 ELSE HTTP_409

\* GetOneStatus with the two branches swapped
GetOneStatusSwapped(found) == IF found # {} THEN "404 Not Found" ELSE "200 OK"

\* on_get with a task id: 200 if the task was found else 404
GetOneStatus(found) == IF found # {} THEN HTTP_200 ELSE HTTP_404

\* GetAllStatus with len(tasks) > 1
GetAllStatusOffByOne(rows) ==
    IF Cardinality(rows) > 1 THEN "200 OK" ELSE "404 Not Found"

\* on_get without a task id: 200 if len(tasks) > 0 else 404
GetAllStatus(rows) == IF Cardinality(rows) > 0 THEN HTTP_200 ELSE HTTP_404

\* _execute_task: resp.status = falcon.HTTP_200
ExecuteStatus == HTTP_200

\* the positional arguments of q.enqueue(jobs.execute_worker, task_id, operation)
Job(task_id, operation) == [task_id |-> task_id, operation |-> operation]

\* except: resp.status = falcon.HTTP_500
ExceptStatus == HTTP_500

\* Uncaught as a surrounding try/except would leave it: recorded, not propagated
Caught(o, f) == [o EXCEPT !.fault = f]

\* an exception no try block of the handler catches leaves the handler
Uncaught(o, f) == [o EXCEPT !.raised = TRUE, !.fault = f]

\* finally: utils.close_db_session(session), with `session` never assigned:
\* UnboundLocalError replaces the handled exception and leaves the handler
FinallyUnbound(o, f) == [o EXCEPT !.raised = TRUE, !.fault = f]

\* ------------------------------------------------------------------ actions
\* Each handler is cut at its calls into the Task table and into the queue,
\* the only state two requests share.  An idle worker takes a request with a
\* fresh response object and runs the handler up to the first such call.

\* on_get: create_db_session() succeeds
OnGet(w) ==
    /\ pc[w] = "idle"
    /\ \E task_id \in {JNone} \cup {JStr(u) : u \in UrlIds} :
          req' = [req EXCEPT ![w] =
                [method |-> "GET", task_id |-> task_id, payload |-> EmptyDict]]
    /\ session' = [session EXCEPT ![w] = "open"]
    /\ pc' = [pc EXCEPT ![w] = "get_lookup"]
    /\ UNCHANGED <<tasks, nextId, queue, nexec, n201, resp, local, outcome>>

\* on_get: create_db_session() raises; except: 500; finally: `session` is unbound
OnGetSessionRaises(w) ==
    /\ pc[w] = "idle"
    /\ \E task_id \in {JNone} \cup {JStr(u) : u \in UrlIds} :
          req' = [req EXCEPT ![w] =
                [method |-> "GET", task_id |-> task_id, payload |-> EmptyDict]]
    /\ resp' = [resp EXCEPT ![w].status = ExceptStatus]
    /\ outcome' = [outcome EXCEPT ![w] = FinallyUnbound(@, "session")]
    /\ pc' = [pc EXCEPT ![w] = "done"]
    /\ UNCHANGED <<tasks, nextId, queue, nexec, n201, session, local>>

\* on_get, `if task_id:` branch: find_by_id, serialize, 200 or 404; finally: close
GetOne(w) ==
    /\ pc[w] = "get_lookup"
    /\ Truthy(req[w].task_id)
    /\ LET found == FindById(tasks, req[w].task_id)
       IN  resp' = [resp EXCEPT
                ![w].body = IF found # {}
                            THEN [kind |-> "task",
                                  items |-> {Serialize(t) : t \in found}]
                            ELSE @,
                ![w].status = GetOneStatus(found)]
    /\ outcome' = [outcome EXCEPT ![w].seen = tasks]
    /\ session' = [session EXCEPT ![w] = "closed"]
    /\ pc' = [pc EXCEPT ![w] = "done"]
    /\ UNCHANGED <<tasks, nextId, queue, nexec, n201, req, local>>

\* on_get, else branch: find_all, serialize_tasks, 200 or 404; finally: close
GetAll(w) ==
    /\ pc[w] = "get_lookup"
    /\ ~Truthy(req[w].task_id)
    /\ resp' = [resp EXCEPT ![w].body = SerializeTasks(tasks),
                            ![w].status = GetAllStatus(tasks)]
    /\ outcome' = [outcome EXCEPT ![w].seen = tasks]
    /\ session' = [session EXCEPT ![w] = "closed"]
    /\ pc' = [pc EXCEPT ![w] = "done"]
    /\ UNCHANGED <<tasks, nextId, queue, nexec, n201, req, local>>

\* on_get: the lookup or the serialization raises before body and status are
\* set; except: 500; finally: close
GetRaises(w) ==
    /\ pc[w] = "get_lookup"
    /\ \E f \in {"lookup", "serialize"} :
          outcome' = [outcome EXCEPT ![w].fault = f]
    /\ resp' = [resp EXCEPT ![w].status = ExceptStatus]
    /\ session' = [session EXCEPT ![w] = "closed"]
    /\ pc' = [pc EXCEPT ![w] = "done"]
    /\ UNCHANGED <<tasks, nextId, queue, nexec, n201, req, local>>

\* on_post without a task id, _create_new_task: create_db_session() succeeds
OnPostCreate(w) ==
    /\ pc[w] = "idle"
    /\ \E parsed_json \in CreatePayloads :
          /\ ~Truthy(JNone)
          /\ req' = [req EXCEPT ![w] =
                [method |-> "POST", task_id |-> JNone, payload |-> parsed_json]]
          /\ local' = [local EXCEPT
                ![w].repository = DictGet(parsed_json, "repository", JNone),
                ![w].name = DictGet(parsed_json, "name", JNone)]
    /\ session' = [session EXCEPT ![w] = "open"]
    /\ pc' = [pc EXCEPT ![w] = "create_unique_task"]
    /\ UNCHANGED <<tasks, nextId, queue, nexec, n201, resp, outcome>>

\* _create_new_task: create_db_session() raises; except: 500; finally: `session`
\* is unbound
OnPostCreateSessionRaises(w) ==
    /\ pc[w] = "idle"
    /\ \E parsed_json \in CreatePayloads :
          /\ ~Truthy(JNone)
          /\ req' = [req EXCEPT ![w] =
                [method |-> "POST", task_id |-> JNone, payload |-> parsed_json]]
          /\ local' = [local EXCEPT
                ![w].repository = DictGet(parsed_json, "repository", JNone),
                ![w].name = DictGet(parsed_json, "name", JNone)]
    /\ resp' = [resp EXCEPT ![w].status = ExceptStatus]
    /\ outcome' = [outcome EXCEPT ![w] = FinallyUnbound(@, "session")]
    /\ pc' = [pc EXCEPT ![w] = "done"]
    /\ UNCHANGED <<tasks, nextId, queue, nexec, n201, session>>

\* _create_new_task: the create-if-absent call, then status and location;
\* finally: close
CreateUniqueTask(w) ==
    /\ pc[w] = "create_unique_task"
    /\ ~CreateRaises(local[w].repository, local[w].name)
    /\ LET existing == FindByPair(tasks, local[w].repository, local[w].name)
           created == existing = {}
           task == IF created
                   THEN [id |-> nextId, repository |-> local[w].repository,
                         name |-> local[w].name]
                   ELSE CHOOSE t \in existing : TRUE
           status == CreateStatus(created)
       IN  /\ tasks' = tasks \cup {task}
           /\ nextId' = IF created THEN nextId + 1 ELSE nextId
           /\ local' = [local EXCEPT ![w].task = task, ![w].created = created]
           /\ resp' = [resp EXCEPT ![w].status = status,
                                   ![w].location = Location(w, task.id)]
           /\ n201' = IF status = HTTP_201
                      THEN [n201 EXCEPT ![task.repository.s, task.name.s] = @ + 1]
                      ELSE n201
    /\ outcome' = [outcome EXCEPT ![w].seen = tasks]
    /\ session' = [session EXCEPT ![w] = "closed"]
    /\ pc' = [pc EXCEPT ![w] = "done"]
    /\ UNCHANGED <<queue, nexec, req>>

\* _create_new_task: create_unique_task raises; except: 500; finally: close
CreateUniqueTaskRaises(w) ==
    /\ pc[w] = "create_unique_task"
    /\ resp' = [resp EXCEPT ![w].status = ExceptStatus]
    /\ outcome' = [outcome EXCEPT ![w].fault = "create"]
    /\ session' = [session EXCEPT ![w] = "closed"]
    /\ pc' = [pc EXCEPT ![w] = "done"]
    /\ UNCHANGED <<tasks, nextId, queue, nexec, n201, req, local>>

\* on_post with a task id, _execute_task up to the loop: operation and times
\* from the payload, status 200, range(0, times)
OnPostExecute(w) ==
    /\ pc[w] = "idle"
    /\ nexec < MaxExecutes
    /\ nexec' = nexec + 1
    /\ \E u \in UrlIds, parsed_json \in ExecutePayloads :
          LET operation == DictGet(parsed_json, "operation", JStr("RUN"))
              times == DictGet(parsed_json, "times", JInt(1))
          IN  /\ Truthy(JStr(u))
              /\ req' = [req EXCEPT ![w] =
                    [method |-> "POST", task_id |-> JStr(u), payload |-> parsed_json]]
              /\ local' = [local EXCEPT ![w].operation = operation,
                                        ![w].times = times]
              /\ IF RangeRaises(times)
                 THEN /\ outcome' = [outcome EXCEPT ![w] = Uncaught(@, "range")]
                      /\ pc' = [pc EXCEPT ![w] = "done"]
                 ELSE /\ pc' = [pc EXCEPT ![w] = "execute_loop"]
                      /\ UNCHANGED outcome
    /\ resp' = [resp EXCEPT ![w].status = ExecuteStatus]
    /\ UNCHANGED <<tasks, nextId, queue, n201, session>>

\* one iteration: self.q.enqueue(jobs.execute_worker, task_id, operation)
Enqueue(w) ==
    /\ pc[w] = "execute_loop"
    /\ local[w].i < RangeLen(local[w].times)
    /\ queue' = Append(queue, Job(req[w].task_id, local[w].operation))
    /\ outcome' = [outcome EXCEPT ![w].jobs = Append(@, Len(queue) + 1)]
    /\ local' = [local EXCEPT ![w].i = @ + 1]
    /\ UNCHANGED <<tasks, nextId, nexec, n201, req, resp, pc, session>>

\* one iteration: enqueue raises (redis unreachable); nothing catches it
EnqueueRaises(w) ==
    /\ pc[w] = "execute_loop"
    /\ local[w].i < RangeLen(local[w].times)
    /\ outcome' = [outcome EXCEPT ![w] = Uncaught(@, "enqueue")]
    /\ pc' = [pc EXCEPT ![w] = "done"]
    /\ UNCHANGED <<tasks, nextId, queue, nexec, n201, req, resp, session, local>>

\* the loop is exhausted: return resp
ExecuteReturn(w) ==
    /\ pc[w] = "execute_loop"
    /\ local[w].i >= RangeLen(local[w].times)
    /\ pc' = [pc EXCEPT ![w] = "done"]
    /\ UNCHANGED <<tasks, nextId, queue, nexec, n201, req, resp, session, local,
                   outcome>>

\* the handler has returned or raised; the worker is free for the next request
Respond(w) ==
    /\ pc[w] = "done"
    /\ pc' = [pc EXCEPT ![w] = "idle"]
    /\ req' = [req EXCEPT ![w] = NoRequest]
    /\ resp' = [resp EXCEPT ![w] = NewResponse]
    /\ session' = [session EXCEPT ![w] = "unbound"]
    /\ local' = [local EXCEPT ![w] = NoLocal]
    /\ outcome' = [outcome EXCEPT ![w] = NoOutcome]
    /\ UNCHANGED <<tasks, nextId, queue, nexec, n201>>

\* ----------------------------------------------------------- specifications
\* GET /task, GET /task/{id} and POST /task: the handlers over the Task table
NextTasks ==
    \E w \in Workers :
        \/ OnGet(w)
        \/ OnGetSessionRaises(w)
        \/ GetOne(w)
        \/ GetAll(w)
        \/ GetRaises(w)
        \/ OnPostCreate(w)
        \/ OnPostCreateSessionRaises(w)
        \/ CreateUniqueTask(w)
        \/ CreateUniqueTaskRaises(w)
        \/ Respond(w)

SpecTasks == Init /\ [][NextTasks]_vars

\* POST /task/{id}: the handler over the queue
NextExecute ==
    \E w \in Workers :
        \/ OnPostExecute(w)
        \/ Enqueue(w)
        \/ EnqueueRaises(w)
        \/ ExecuteReturn(w)
        \/ Respond(w)

SpecExecute == Init /\ [][NextExecute]_vars

\* every route of TaskResource
Next ==
    \E w \in Workers :
        \/ OnGet(w)
        \/ OnGetSessionRaises(w)
        \/ GetOne(w)
        \/ GetAll(w)
        \/ GetRaises(w)
        \/ OnPostCreate(w)
        \/ OnPostCreateSessionRaises(w)
        \/ CreateUniqueTask(w)
        \/ CreateUniqueTaskRaises(w)
        \/ OnPostExecute(w)
        \/ Enqueue(w)
        \/ EnqueueRaises(w)
        \/ ExecuteReturn(w)
        \/ Respond(w)

Spec == Init /\ [][Next]_vars

\* ------------------------------------------------------------------ claims
Done(w) == pc[w] = "done"
NoFault(w) == outcome[w].fault = "none"
IsGetAll(w) == req[w].method = "GET" /\ req[w].task_id.type = "none"
IsGetOne(w) == req[w].method = "GET" /\ req[w].task_id.type = "str"
IsCreate(w) == req[w].method = "POST" /\ req[w].task_id.type = "none"
IsExecute(w) == req[w].method = "POST" /\ req[w].task_id.type = "str"

\* the rows of `rows` with the (repository, name) of worker w's POST /task payload
SamePair(rows, w) ==
    {t \in rows : /\ "repository" \in DOMAIN req[w].payload
                  /\ "name" \in DOMAIN req[w].payload
                  /\ t.repository = req[w].payload["repository"]
                  /\ t.name = req[w].payload["name"]}

IdOf(t) == JStr(Str(t.id))

\* C1: a POST /task for a (repository, name) pair that is not stored answers
\* 201 and stores a Task with a fresh id; nothing a handler has seen stored is
\* ever removed; and a GET /task/{id} that runs with that Task stored answers
\* 200 with that Task's serialization (no backend exception).
C1_CreateThenGet ==
    /\ \A w \in Workers :
          (Done(w) /\ IsCreate(w) /\ NoFault(w) /\ SamePair(outcome[w].seen, w) = {})
          => /\ resp[w].status = HTTP_201
             /\ local[w].task \in SamePair(tasks, w)
             /\ \A t \in outcome[w].seen : t.id # local[w].task.id
    /\ \A w \in Workers : outcome[w].seen \subseteq tasks
    /\ \A w \in Workers :
          (Done(w) /\ IsGetOne(w) /\ NoFault(w))
          => \A t \in outcome[w].seen :
                IdOf(t) = req[w].task_id
                => /\ resp[w].status = HTTP_200
                   /\ resp[w].body = [kind |-> "task", items |-> {Serialize(t)}]

\* a finished POST /task answered 201 and a finished GET of the new id answered 200
C1_Witness ==
    \E w1, w2 \in Workers :
        /\ Done(w1) /\ IsCreate(w1) /\ resp[w1].status = HTTP_201
        /\ Done(w2) /\ IsGetOne(w2) /\ req[w2].task_id = IdOf(local[w1].task)
        /\ resp[w2].status = HTTP_200
        /\ resp[w2].body = [kind |-> "task", items |-> {Serialize(local[w1].task)}]

\* the create-if-absent step of worker w on a pair that is already stored
RepeatCreateStep(w) ==
    /\ pc[w] = "create_unique_task"
    /\ pc'[w] = "done"
    /\ outcome'[w].fault = "none"
    /\ SamePair(tasks, w) # {}

\* C2: no two stored Tasks share a (repository, name) pair, and a POST /task
\* for a pair that is already stored answers 409 and leaves the stored Tasks
\* as they were.
C2_UniquePairs ==
    /\ [](\A t1, t2 \in tasks :
            (t1.repository = t2.repository /\ t1.name = t2.name) => t1 = t2)
    /\ [][\A w \in Workers :
            RepeatCreateStep(w) => (resp'[w].status = HTTP_409 /\ tasks' = tasks)]_vars

\* a finished POST /task for a pair that was stored before its create call
C2_Witness ==
    \E w \in Workers :
        /\ Done(w) /\ IsCreate(w) /\ NoFault(w)
        /\ SamePair(outcome[w].seen, w) # {}
        /\ resp[w].status = HTTP_409

\* C3: GET /task answers 404 when no Task is stored, and 200 with a non-empty
\* collection holding every stored Task when one is (no backend exception).
C3_GetAll ==
    \A w \in Workers :
        (Done(w) /\ IsGetAll(w) /\ NoFault(w))
        => /\ outcome[w].seen = {} => resp[w].status = HTTP_404
           /\ outcome[w].seen # {}
              => /\ resp[w].status = HTTP_200
                 /\ resp[w].body.kind = "tasks"
                 /\ resp[w].body.items # {}
                 /\ \A t \in outcome[w].seen :
                       [id |-> t.id, repository |-> t.repository.s,
                        name |-> t.name.s] \in resp[w].body.items

\* a finished GET /task that found two Tasks
C3_Witness ==
    \E w \in Workers :
        /\ Done(w) /\ IsGetAll(w) /\ NoFault(w)
        /\ Cardinality(outcome[w].seen) = 2
        /\ resp[w].status = HTTP_200
        /\ Cardinality(resp[w].body.items) = 2

\* C4: GET /task/{id} answers 200 with the serialized Task exactly when a Task
\* with that id is stored; otherwise it answers 404 and sets no body (no
\* backend exception).
C4_GetOne ==
    \A w \in Workers :
        (Done(w) /\ IsGetOne(w) /\ NoFault(w))
        => LET hit == {t \in outcome[w].seen : IdOf(t) = req[w].task_id}
           IN  /\ resp[w].status = HTTP_200 <=> hit # {}
               /\ hit # {} => resp[w].body =
                     [kind |-> "task", items |-> {Serialize(t) : t \in hit}]
               /\ hit = {} => (resp[w].status = HTTP_404 /\ resp[w].body = NoBody)

\* a finished GET /task/{id} for an id that is not stored while another Task is
C4_Witness ==
    \E w \in Workers :
        /\ Done(w) /\ IsGetOne(w) /\ NoFault(w)
        /\ outcome[w].seen # {}
        /\ \A t \in outcome[w].seen : IdOf(t) # req[w].task_id
        /\ resp[w].status = HTTP_404

\* the values a POST /task/{id} payload asks for, with the documented defaults
AskedOperation(w) ==
    IF "operation" \in DOMAIN req[w].payload
    THEN req[w].payload["operation"] ELSE JStr("RUN")
AskedTimes(w) ==
    IF "times" \in DOMAIN req[w].payload THEN req[w].payload["times"] ELSE JInt(1)

\* the jobs worker w enqueued are on the queue, in order, each (task_id, operation)
JobsOnQueue(w) ==
    /\ \A k \in 1..Len(outcome[w].jobs) :
          /\ outcome[w].jobs[k] \in 1..Len(queue)
          /\ queue[outcome[w].jobs[k]] =
                [task_id |-> req[w].task_id, operation |-> AskedOperation(w)]
    /\ \A j, k \in 1..Len(outcome[w].jobs) :
          j < k => outcome[w].jobs[j] < outcome[w].jobs[k]

\* C5 as stated: a POST /task/{id} with times=n that returns has enqueued
\* exactly n jobs, each (task_id, operation); operation defaults to "RUN" and
\* times to 1.
C5_ExactlyTimesJobs ==
    \A w \in Workers :
        (Done(w) /\ IsExecute(w) /\ ~outcome[w].raised)
        => /\ Len(outcome[w].jobs) = AskedTimes(w).n
           /\ JobsOnQueue(w)

\* C5 amended: a POST /task/{id} with an integer times=n that returns has
\* enqueued exactly max(n, 0) jobs, each (task_id, operation); operation
\* defaults to "RUN" and times to 1.
C5_MaxTimesZeroJobs ==
    \A w \in Workers :
        (Done(w) /\ IsExecute(w) /\ ~outcome[w].raised)
        => /\ AskedTimes(w).type = "int"
           /\ Len(outcome[w].jobs) = (IF AskedTimes(w).n > 0 THEN AskedTimes(w).n ELSE 0)
           /\ JobsOnQueue(w)

\* a returned POST /task/{id} whose payload named the operation and times=MaxTimes
C5_Witness ==
    \E w \in Workers :
        /\ Done(w) /\ IsExecute(w) /\ ~outcome[w].raised
        /\ DOMAIN req[w].payload = {"operation", "times"}
        /\ req[w].payload["times"] = JInt(MaxTimes)
        /\ Len(outcome[w].jobs) = MaxTimes

\* C6 as stated: when a database step of GET /task, GET /task/{id} or POST
\* /task raises, the handler returns with status 500, no exception leaves it
\* and no session stays open.
C6_FaultsBecome500 ==
    \A w \in Workers :
        (Done(w) /\ (req[w].method = "GET" \/ IsCreate(w)) /\ ~NoFault(w))
        => /\ resp[w].status = HTTP_500
           /\ ~outcome[w].raised
           /\ session[w] # "open"

\* C7: once _execute_task runs the status is 200, whatever the queue does; an
\* enqueue that raises leaves the handler as an exception, and the jobs
\* enqueued before it stay on the queue.
C7_ExecuteAlways200 ==
    \A w \in Workers :
        (IsExecute(w) /\ pc[w] \in {"execute_loop", "done"})
        => /\ resp[w].status = HTTP_200
           /\ JobsOnQueue(w)
           /\ outcome[w].fault = "enqueue"
              => /\ Done(w)
                 /\ outcome[w].raised
                 /\ Len(outcome[w].jobs) < AskedTimes(w).n

\* an enqueue raised after an earlier job of the same request was enqueued
C7_Witness ==
    \E w \in Workers :
        /\ IsExecute(w) /\ Done(w)
        /\ outcome[w].fault = "enqueue"
        /\ outcome[w].raised
        /\ Len(outcome[w].jobs) >= 1
        /\ resp[w].status = HTTP_200

\* C8 as stated: every job on the queue names a stored Task.  (Tasks are never
\* deleted, so a job whose Task was stored when it was enqueued still has it.)
C8_JobsNameStoredTasks ==
    \A k \in 1..Len(queue) : \E t \in tasks : IdOf(t) = queue[k].task_id

\* C9 as stated: on 201 and on 409 the location value holds the response
\* object and does not hold the Task's id.
C9_LocationWithoutId ==
    \A w \in Workers :
        (Done(w) /\ IsCreate(w) /\ resp[w].status \in {HTTP_201, HTTP_409})
        => /\ \E k \in DOMAIN resp[w].location : resp[w].location[k] = RespStr(w)
           /\ \A k \in DOMAIN resp[w].location, t \in SamePair(tasks, w) :
                 resp[w].location[k] # Str(t.id)

\* C9 amended: on 201 and on 409 the location value is '/<resp>/task/<id>/':
\* the response object where a path prefix belongs, followed by the id of the
\* Task stored for the pair.
C9_LocationRespAndId ==
    \A w \in Workers :
        (Done(w) /\ IsCreate(w) /\ resp[w].status \in {HTTP_201, HTTP_409})
        => \E t \in SamePair(tasks, w) :
              resp[w].location = <<"/", RespStr(w), "/task/", Str(t.id), "/">>

\* a finished POST /task answered 409 with its location set
C9_Witness ==
    \E w \in Workers :
        /\ Done(w) /\ IsCreate(w)
        /\ resp[w].status = HTTP_409
        /\ resp[w].location # <<>>

\* C10: with create-if-absent atomic, the POST /task requests for one pair get
\* exactly one 201 between them however they interleave, every other one that
\* completes its call gets 409, and one Task with that pair is stored.
C10_OneCreatorPerPair ==
    /\ \A r \in Repositories, nm \in Names :
          LET stored == {t \in tasks : t.repository = JStr(r) /\ t.name = JStr(nm)}
          IN  /\ Cardinality(stored) <= 1
              /\ n201[r, nm] = Cardinality(stored)
    /\ \A w \in Workers :
          (Done(w) /\ IsCreate(w) /\ NoFault(w))
          => /\ resp[w].status \in {HTTP_201, HTTP_409}
             /\ Cardinality(SamePair(tasks, w)) = 1
    /\ \A w1, w2 \in Workers :
          (/\ w1 # w2
           /\ Done(w1) /\ IsCreate(w1) /\ NoFault(w1)
           /\ Done(w2) /\ IsCreate(w2) /\ NoFault(w2)
           /\ req[w1].payload = req[w2].payload)
          => ~(resp[w1].status = HTTP_201 /\ resp[w2].status = HTTP_201)

\* two overlapping POST /task for one pair: one answered 201, the other 409
C10_Witness ==
    \E w1, w2 \in Workers :
        /\ w1 # w2
        /\ Done(w1) /\ IsCreate(w1) /\ Done(w2) /\ IsCreate(w2)
        /\ req[w1].payload = req[w2].payload
        /\ resp[w1].status = HTTP_201
        /\ resp[w2].status = HTTP_409

====
